---- MODULE Spec2Model ----
(***************************************************************************)
(* MissingGettextRuChecker.visit_const (missing_gettext.py): the verdict   *)
(* on one string literal of a parsed module.  A literal whose value holds  *)
(* a Cyrillic letter, that no content filter exempts, is followed up its   *)
(* parent links; it is reported (W0001) unless a gettext call or a         *)
(* structural whitelist rule accepts it on the way.                        *)
(*                                                                         *)
(* Text is a sequence of Unicode code points.  A syntax node is a record   *)
(* whose fields are the attributes the checker reads; an attribute a node  *)
(* does not have is a field outside the record's DOMAIN, and reading it is *)
(* Python's AttributeError.  A field that holds a child node holds a       *)
(* reference: k > 0 is the k-th node of the literal's ancestor chain       *)
(* (1 is the literal itself), 0 is some node off the chain.  Python's      *)
(* `x == node` on nodes is reference identity, so it is `x = 1` here.      *)
(***************************************************************************)
EXTENDS Integers, Sequences, FiniteSets, TLC

VARIABLES
    chain,      \* the literal (chain[1]) and its ancestors, root last
    pc,         \* position in visit_const: start, scan, report, done
    curr_node,  \* index in chain of curr_node; 0 before line 174
    string_ok,  \* line 172
    messages,   \* what add_message received
    stdout      \* what the handler of lines 215-218 printed

vars == <<chain, pc, curr_node, string_ok, messages, stdout>>

-----------------------------------------------------------------------------
(* Bounds of the model *)

\* ancestors between the literal and the Module root
MaxAncestors == 2
\* length of the literal values enumerated for the content filter
MaxLen == 3

-----------------------------------------------------------------------------
(* Characters *)

Caret == 94
Dollar == 36
LBracket == 91
Slash == 47
Hyphen == 45
Newline == 10
Space == 32
DigitOne == 49
Dot == 46
LowerE == 101
CyrUpperA == 1040
CyrUpperYa == 1071
CyrLowerA == 1072
CyrLowerZhe == 1078
CyrLowerYa == 1103

\* the characters literal values are built from
Alphabet ==
    {Caret, Dollar, LBracket, Slash, Hyphen, Newline, Space, DigitOne,
     CyrUpperA, CyrUpperYa, CyrLowerA, CyrLowerZhe, CyrLowerYa}

\* the ASCII whitespace str.strip() and float() drop at both ends
Whitespace == {Space, Newline, 9, 11, 12, 13}

StartsWith(s, p) ==
    /\ Len(p) <= Len(s)
    /\ SubSeq(s, 1, Len(p)) = p

EndsWith(s, p) ==
    /\ Len(p) <= Len(s)
    /\ SubSeq(s, Len(s) - Len(p) + 1, Len(s)) = p

\* Python's `p in s` on strings
Contains(s, p) ==
    \E i \in 1..(Len(s) - Len(p) + 1) : SubSeq(s, i, i + Len(p) - 1) = p

\* str.strip()
Strip(s) ==
    LET keep == {i \in 1..Len(s) : s[i] \notin Whitespace}
    IN  IF keep = {} THEN <<>>
        ELSE LET lo == CHOOSE i \in keep : \A j \in keep : i <= j
                 hi == CHOOSE i \in keep : \A j \in keep : j <= i
             IN  SubSeq(s, lo, hi)

\* str.split('\n')
RECURSIVE SplitLines(_)
SplitLines(s) ==
    LET nl == {i \in 1..Len(s) : s[i] = Newline}
    IN  IF nl = {} THEN <<s>>
        ELSE LET k == CHOOSE i \in nl : \A j \in nl : i <= j
             IN  <<SubSeq(s, 1, k - 1)>> \o SplitLines(SubSeq(s, k + 1, Len(s)))

-----------------------------------------------------------------------------
(* The content predicates, lines 11-50 and 77-87 *)

IsDigits(s) == Len(s) > 0 /\ \A i \in 1..Len(s) : s[i] \in 48..57

\* digits, digits '.' [digits], '.' digits
IsMantissa(s) ==
    \/ IsDigits(s)
    \/ \E k \in 1..Len(s) :
          /\ s[k] = Dot
          /\ LET before == SubSeq(s, 1, k - 1)
                 after == SubSeq(s, k + 1, Len(s))
             IN  /\ before = <<>> \/ IsDigits(before)
                 /\ after = <<>> \/ IsDigits(after)
                 /\ before # <<>> \/ after # <<>>

Unsigned(s) == IF Len(s) > 0 /\ s[1] \in {43, Hyphen} THEN Tail(s) ELSE s

\* float(text) succeeds: surrounding whitespace, a sign, a decimal mantissa
\* and an exponent (inf, nan and digit-grouping underscores need letters and
\* '_' that no enumerated value holds)
is_number(text) ==
    LET body == Unsigned(Strip(text))
        exps == {i \in 1..Len(body) : body[i] \in {LowerE, 69}}
    IN  \/ IsMantissa(body)
        \/ \E k \in exps :
              /\ IsMantissa(SubSeq(body, 1, k - 1))
              /\ IsDigits(Unsigned(SubSeq(body, k + 1, Len(body))))

\* re.search('[а-яА-Я]', obj) on a str
_is_cyrillic_str(obj) ==
    /\ obj.type = "str"
    /\ \E i \in 1..Len(obj.text) :
          \/ obj.text[i] \in CyrLowerA..CyrLowerYa
          \/ obj.text[i] \in CyrUpperA..CyrUpperYa

_is_comment_in_sql(obj) ==
    LET rows == SplitLines(obj)
    IN  \E i \in 1..Len(rows) : StartsWith(Strip(rows[i]), <<Hyphen, Hyphen>>)

\* the six one-argument functions of whitelisted_strings, by position
WhitelistedString(k, x) ==
    CASE k = 1 -> x = <<>>
      [] k = 2 -> is_number(x)
      [] k = 3 -> StartsWith(x, <<Caret>>) /\ EndsWith(x, <<Dollar>>)
      [] k = 4 -> \/ Contains(x, <<LBracket, Caret>>)
                  \/ Contains(x, <<CyrLowerA, Hyphen, CyrLowerYa>>)
                  \/ Contains(x, <<CyrUpperA, Hyphen, CyrUpperYa>>)
      [] k = 5 -> StartsWith(x, <<Slash>>) \/ EndsWith(x, <<Slash>>)
      [] k = 6 -> _is_comment_in_sql(x)

whitelisted_strings == 1..6

\* the list without its last entry
ContentExemptNoSql(x) == \E k \in 1..5 : WhitelistedString(k, x)

\* the loop of lines 89-91 returns
ContentExempt(x) == \E k \in whitelisted_strings : WhitelistedString(k, x)

-----------------------------------------------------------------------------
(* Syntax nodes *)

Name(n) == [kind |-> "Name", name |-> n]
AssignName(n) == [kind |-> "AssignName", name |-> n]
Attribute(a, e) == [kind |-> "Attribute", attrname |-> a, expr |-> e]
\* an expression with neither name nor attrname: get_models(), d[k], ...
Nameless == [kind |-> "Subscript"]

Const(v) == [kind |-> "Const", value |-> v]
\* a Call's keywords are Keyword children; no line reads them from the Call
Call(f, a) == [kind |-> "Call", func |-> f, args |-> a]
Dict(i) == [kind |-> "Dict", items |-> i]
Index(v) == [kind |-> "Index", value |-> v]
Assign(t, v) == [kind |-> "Assign", targets |-> t, value |-> v]
\* astroid's Delete holds targets and has no value attribute
Delete(t) == [kind |-> "Delete", targets |-> t]
Keyword(a, v) == [kind |-> "Keyword", arg |-> a, value |-> v]
Compare(l, o) == [kind |-> "Compare", left |-> l, ops |-> o]
Expr(v) == [kind |-> "Expr", value |-> v]
Module == [kind |-> "Module"]

Str(t) == [type |-> "str", text |-> t]
\* a Const that is no str: the integer 1
IntOne == [type |-> "int", text |-> <<DigitOne>>]

\* django.db.models.__all__ (line 8), the part the model draws callees from
__all__ == {"CharField", "ForeignKey", "Q"}

\* the calls that can be the parent of chain node c: gettext calls, a
\* field constructor under its bare name, queryset and logging methods,
\* field constructors reached through a name or through a nameless base,
\* and a method no entry knows; c is the first or the second argument
Calls(c) ==
    {Call(Name("_"), <<c>>),
     Call(Name("ngettext_lazy"), <<0, c>>),
     Call(Name("CharField"), <<c>>),
     Call(Attribute("order_by", Name("queryset")), <<c>>),
     Call(Attribute("info", Name("logger")), <<0, c>>),
     Call(Attribute("CharField", Name("models")), <<c>>),
     Call(Attribute("CharField", Name("models")), <<0, c>>),
     Call(Attribute("ForeignKey", Nameless), <<c>>),
     Call(Attribute("ForeignKey", Nameless), <<0, c>>),
     Call(Attribute("format", Name("queryset")), <<c>>)}

\* the nodes that can be the parent of chain node c
AncestorNodes(c) ==
    Calls(c)
    \cup {Dict(<<<<c, 0>>>>), Dict(<<<<0, c>>>>), Index(c), Expr(c)}
    \cup {Assign(<<AssignName("db_table")>>, c), Assign(<<AssignName("x")>>, c),
          Assign(<<Nameless>>, c)}
    \cup {Delete(<<c>>)}
    \cup {Keyword("verbose_name", c), Keyword("default", c)}
    \cup {Compare(c, <<<<"==", 0>>>>), Compare(0, <<<<"==", c>>>>),
          Compare(0, <<<<"==", 0>>, <<"<", c>>>>),
          \* a Compare built without its operator/operand pairs
          Compare(c, <<>>)}

\* the chains of k ancestors above a literal (chain index 1)
RECURSIVE AncestorChains(_)
AncestorChains(k) ==
    IF k = 0 THEN {<<>>}
    ELSE {Append(c, n) : c \in AncestorChains(k - 1), n \in AncestorNodes(k)}
         \* AncestorNodes(k): ancestor k sits at chain index k + 1, its child at k

AncestorChainsUpTo(k) == UNION {AncestorChains(j) : j \in 0..k}

\* a literal's chain: the literal, its ancestors, the Module root
Tree(v, ancestors) == <<Const(v)>> \o ancestors \o <<Module>>

\* all texts over the alphabet, up to a length
RECURSIVE Texts(_)
Texts(n) ==
    IF n = 0 THEN {<<>>}
    ELSE Texts(n - 1) \cup
         {Append(t, ch) : t \in {u \in Texts(n - 1) : Len(u) = n - 1}, ch \in Alphabet}

\* "Дата создания"
DataSozdaniya ==
    <<1044, 1072, 1090, 1072, 32, 1089, 1086, 1079, 1076, 1072, 1085, 1080, 1103>>

\* the values the ancestor scan is explored with: one that reaches the
\* scan, and one each that the gate and the content filter turn away
ScanValues ==
    {Str(<<CyrLowerZhe>>), Str(DataSozdaniya), Str(<<DigitOne>>), IntOne,
     Str(<<Slash, CyrLowerZhe>>)}

\* the ancestor chains the content filter is explored with
FilterAncestors ==
    {<<>>, <<Expr(1)>>, <<Call(Name("_"), <<1>>), Expr(2)>>}

-----------------------------------------------------------------------------
(* The structural whitelist, lines 102-170 *)

\* hasattr(obj, f)
Has(obj, f) == f \in DOMAIN obj

\* what calling a whitelist function gives: its truth value, or the
\* exception it raises
Truth(b) == IF b THEN "True" ELSE "False"

QuerysetFunctions ==
    {"has_key", "pop", "order_by", "strftime", "strptime", "get",
     "select_related", "values", "filter", "values_list"}

LoggerNames == {"logging", "logger", "console_logger"}

MetaNames == {"db_table", "verbose_name", "verbose_name_plural"}

KeywordNames == {"verbose_name", "help_text"}

\* the class each whitelist entry is keyed by
WhitelistClass ==
    <<"Dict", "Index", "Assign", "Delete", "Keyword", "Compare", "Compare",
      "Call", "Call", "Call">>

\* The functions of the whitelist entries, called with (curr, node); node
\* is a chain reference.  Python's `and` stops at the first false operand.

\* `node in` the flattened items, keys and values alike
DictRuleKeysAndValues(curr, node) ==
    IF ~Has(curr, "items") THEN "AttributeError"
    ELSE Truth(\E i \in 1..Len(curr.items) :
                  curr.items[i][1] = node \/ curr.items[i][2] = node)

\* line 104
DictRule(curr, node) ==
    IF ~Has(curr, "items") THEN "AttributeError"
    ELSE Truth(\E i \in 1..Len(curr.items) : curr.items[i][1] = node)

\* line 106
IndexRule(curr, node) ==
    IF ~Has(curr, "value") THEN "AttributeError"
    ELSE Truth(curr.value = node)

\* lines 109-117
AssignRule(curr, node) ==
    IF ~Has(curr, "targets") THEN "AttributeError"
    ELSE Truth(/\ Len(curr.targets) = 1
               /\ Has(curr.targets[1], "name")
               /\ curr.targets[1].name \in MetaNames)

\* line 119
DeleteRule(curr, node) ==
    IF ~Has(curr, "value") THEN "AttributeError"
    ELSE Truth(curr.value = node)

\* lines 121-127
KeywordRule(curr, node) ==
    IF ~Has(curr, "arg") THEN "AttributeError"
    ELSE IF curr.arg \notin KeywordNames THEN "False"
    ELSE IF ~Has(curr, "value") THEN "AttributeError"
    ELSE Truth(curr.value = node)

\* line 129: ops[0] of an empty list is an IndexError
CompareOpsRule(curr, node) ==
    IF ~Has(curr, "ops") THEN "AttributeError"
    ELSE IF Len(curr.ops) = 0 THEN "IndexError"
    ELSE Truth(node = curr.ops[1][2])

\* line 131
CompareLeftRule(curr, node) ==
    IF ~Has(curr, "left") THEN "AttributeError"
    ELSE Truth(node = curr.left)

\* lines 133-151
QuerysetRule(curr, node) ==
    IF ~Has(curr, "func") THEN "AttributeError"
    ELSE IF curr.func.kind # "Attribute" THEN "False"
    ELSE IF ~Has(curr.func, "attrname") THEN "AttributeError"
    ELSE Truth(curr.func.attrname \in QuerysetFunctions)

\* lines 153-157
LoggingRule(curr, node) ==
    IF ~Has(curr, "func") THEN "AttributeError"
    ELSE IF ~Has(curr.func, "expr") THEN "AttributeError"
    ELSE IF ~Has(curr.func.expr, "name") THEN "AttributeError"
    ELSE Truth(curr.func.expr.name \in LoggerNames)

\* `node in curr_node.args` in place of `curr_node.args[0] == node`
ModelFieldRuleAnyArg(curr, node) ==
    IF ~Has(curr, "func") THEN "AttributeError"
    ELSE IF ~Has(curr.func, "attrname") THEN "AttributeError"
    ELSE Truth(/\ curr.func.attrname \in __all__
               /\ Has(curr, "args")
               /\ \E i \in 1..Len(curr.args) : curr.args[i] = node)

\* the callee's name read from a Name as well as from an Attribute
ModelFieldRuleByName(curr, node) ==
    IF ~Has(curr, "func") THEN "AttributeError"
    ELSE IF ~Has(curr.func, "attrname") /\ ~Has(curr.func, "name")
         THEN "AttributeError"
    ELSE Truth(/\ (IF Has(curr.func, "attrname") THEN curr.func.attrname
                   ELSE curr.func.name) \in __all__
               /\ Has(curr, "args")
               /\ Len(curr.args) > 0
               /\ curr.args[1] = node)

\* lines 160-169
ModelFieldRule(curr, node) ==
    IF ~Has(curr, "func") THEN "AttributeError"
    ELSE IF ~Has(curr.func, "attrname") THEN "AttributeError"
    ELSE Truth(/\ curr.func.attrname \in __all__
               /\ Has(curr, "args")
               /\ Len(curr.args) > 0
               /\ curr.args[1] = node)

\* the function of whitelist entry k
WhitelistFunc(k, curr, node) ==
    CASE k = 1 -> DictRule(curr, node)
      [] k = 2 -> IndexRule(curr, node)
      [] k = 3 -> AssignRule(curr, node)
      [] k = 4 -> DeleteRule(curr, node)
      [] k = 5 -> KeywordRule(curr, node)
      [] k = 6 -> CompareOpsRule(curr, node)
      [] k = 7 -> CompareLeftRule(curr, node)
      [] k = 8 -> QuerysetRule(curr, node)
      [] k = 9 -> LoggingRule(curr, node)
      [] k = 10 -> ModelFieldRule(curr, node)

\* the order the whitelist is written in
whitelist == <<1, 2, 3, 4, 5, 6, 7, 8, 9, 10>>

\* no except clause
SwallowedNothing(outcome) == FALSE

\* `except AttributeError: pass` (lines 210-211)
Swallowed(outcome) == outcome = "AttributeError"

\* the try around the for loop instead of inside it: an AttributeError ends
\* the loop at this node
RECURSIVE WhitelistLoopTryOutside(_, _, _)
WhitelistLoopTryOutside(order, j, curr) ==
    IF j > Len(order) THEN "none"
    ELSE IF curr.kind # WhitelistClass[order[j]]
         THEN WhitelistLoopTryOutside(order, j + 1, curr)
    ELSE LET outcome == WhitelistFunc(order[j], curr, 1)
         IN  IF outcome = "True" THEN "ok"
             ELSE IF outcome = "False"
                  THEN WhitelistLoopTryOutside(order, j + 1, curr)
             ELSE IF outcome = "AttributeError" THEN "none"
             ELSE outcome

\* the loop of lines 201-211 over the entries order[j..], at curr: "ok" when
\* an entry accepts (string_ok = True; break), "none" when the loop runs
\* out, else the exception that leaves it
RECURSIVE WhitelistLoop(_, _, _)
WhitelistLoop(order, j, curr) ==
    IF j > Len(order) THEN "none"
    ELSE IF curr.kind # WhitelistClass[order[j]]
         THEN WhitelistLoop(order, j + 1, curr)
    ELSE LET outcome == WhitelistFunc(order[j], curr, 1)
         IN  IF outcome = "True" THEN "ok"
             ELSE IF outcome = "False" \/ Swallowed(outcome)
                  THEN WhitelistLoop(order, j + 1, curr)
             ELSE outcome

GettextNames ==
    {"_", "ugettext", "ugettext_lazy", "gettext", "gettext_lazy", "pgettext",
     "pgettext_lazy", "ngettext", "ngettext_lazy"}

\* only the `_` alias
IsGettextCallUnderscoreOnly(curr) ==
    /\ curr.kind = "Call"
    /\ Has(curr, "func")
    /\ Has(curr.func, "name")
    /\ curr.func.name = "_"

\* lines 183-195
IsGettextCall(curr) ==
    /\ curr.kind = "Call"
    /\ Has(curr, "func")
    /\ Has(curr.func, "name")
    /\ curr.func.name \in GettextNames

\* what follows the whitelist loop when an entry has accepted: the for
\* loop's break leaves the for loop only, and line 213 runs
AfterWhitelistMatch == "advance"

\* one pass of the while body (lines 179-213) at tree[i]: the value of
\* string_ok after it, and how it is left (advance: line 213; break: line
\* 198; except: an exception reaches line 215, named in error)
Iteration(order, tree, i, ok) ==
    IF IsGettextCall(tree[i])
    THEN [next |-> "break", ok |-> TRUE, error |-> "none"]
    ELSE LET w == WhitelistLoop(order, 1, tree[i])
         IN  CASE w = "ok" -> [next |-> AfterWhitelistMatch, ok |-> TRUE, error |-> "none"]
               [] w = "none" -> [next |-> "advance", ok |-> ok, error |-> "none"]
               [] OTHER -> [next |-> "except", ok |-> ok, error |-> w]

\* `curr_node.parent.parent is not None`: the loop ends one node early
HasGrandparent(tree, i) == i + 1 < Len(tree)

\* curr_node.parent is not None
HasParent(tree, i) == i < Len(tree)

\* lines 172-223 run to the end from tree[i]: whether add_message is called
RECURSIVE ScanFlags(_, _, _, _)
ScanFlags(order, tree, i, ok) ==
    IF ~HasParent(tree, i) THEN ~ok
    ELSE LET r == Iteration(order, tree, i, ok)
         IN  IF r.next = "advance" THEN ScanFlags(order, tree, i + 1, r.ok)
             ELSE ~r.ok

\* visit_const as a function of the tree and the whitelist's order: TRUE
\* when the literal is reported
Flags(order, tree) ==
    /\ _is_cyrillic_str(tree[1].value)
    /\ ~ContentExempt(tree[1].value.text)
    /\ ScanFlags(order, tree, 1, FALSE)

-----------------------------------------------------------------------------
(* visit_const, step by step *)

node == chain[1]

TypeOK ==
    /\ pc \in {"start", "scan", "report", "done"}
    /\ curr_node \in 0..Len(chain)
    /\ string_ok \in BOOLEAN
    /\ Len(messages) <= 1

InitWith(v, ancestors) ==
    /\ chain = Tree(v, ancestors)
    /\ pc = "start"
    /\ curr_node = 0
    /\ string_ok = FALSE
    /\ messages = <<>>
    /\ stdout = <<>>

Init ==
    \E v \in ScanValues, a \in AncestorChainsUpTo(MaxAncestors) : InitWith(v, a)

InitFilter ==
    \E t \in Texts(MaxLen), a \in FilterAncestors : InitWith(Str(t), a)

\* lines 71-91, then lines 172-174
Gate ==
    /\ pc = "start"
    /\ IF ~_is_cyrillic_str(node.value) \/ ContentExempt(node.value.text)
       THEN /\ pc' = "done"
            /\ UNCHANGED <<curr_node, string_ok>>
       ELSE /\ pc' = "scan"
            /\ curr_node' = 1
            /\ string_ok' = FALSE
    /\ UNCHANGED <<chain, messages, stdout>>

\* one pass of the while loop, lines 178-213, and the handler of lines
\* 215-218 when an exception leaves it
ScanStep ==
    /\ pc = "scan"
    /\ HasParent(chain, curr_node)
    /\ LET r == Iteration(whitelist, chain, curr_node, string_ok)
       IN  /\ string_ok' = r.ok
           /\ curr_node' = IF r.next = "advance" THEN curr_node + 1 ELSE curr_node
           /\ pc' = IF r.next = "advance" THEN "scan" ELSE "report"
           /\ stdout' = IF r.next = "except"
                        THEN Append(stdout, <<1, curr_node, r.error>>)
                        ELSE stdout
    /\ UNCHANGED <<chain, messages>>

\* the while condition of line 178 fails: curr_node is the root
ScanEnd ==
    /\ pc = "scan"
    /\ ~HasParent(chain, curr_node)
    /\ pc' = "report"
    /\ UNCHANGED <<chain, curr_node, string_ok, messages, stdout>>

\* lines 220-223
Report ==
    /\ pc = "report"
    /\ messages' = IF ~string_ok
                   THEN Append(messages,
                               [msg |-> "W0001", node |-> 1, args |-> node.value])
                   ELSE messages
    /\ pc' = "done"
    /\ UNCHANGED <<chain, curr_node, string_ok, stdout>>

Next == Gate \/ ScanStep \/ ScanEnd \/ Report

Spec == Init /\ [][Next]_vars

\* every text up to MaxLen under a few chains, beside the chains of Spec
SpecFilter == (Init \/ InitFilter) /\ [][Next]_vars

-----------------------------------------------------------------------------
(* Properties *)

\* the literal passes the target-script gate and the content filter
ReachesScan ==
    /\ _is_cyrillic_str(node.value)
    /\ ~ContentExempt(node.value.text)

\* the one diagnostic of a reported literal
Diagnostic == [msg |-> "W0001", node |-> 1, args |-> node.value]

\* the nodes the scan can examine: all but the root
Examinable == 1..(Len(chain) - 1)

\* whitelist entry k applies to chain[i] and accepts the literal
Accepts(k, i) ==
    /\ chain[i].kind = WhitelistClass[k]
    /\ WhitelistFunc(k, chain[i], 1) = "True"

\* whitelist entry k applies to chain[i] and raises something other than
\* an AttributeError
Raises(k, i) ==
    /\ chain[i].kind = WhitelistClass[k]
    /\ WhitelistFunc(k, chain[i], 1) \notin {"True", "False", "AttributeError"}

\* whitelist entry k applies to chain[i] and raises an AttributeError
AttributeAbsent(k, i) ==
    /\ chain[i].kind = WhitelistClass[k]
    /\ WhitelistFunc(k, chain[i], 1) = "AttributeError"

\* chain[i] is a gettext call or satisfies a whitelist entry
Qualifies(i) ==
    \/ IsGettextCall(chain[i])
    \/ \E k \in 1..10 : Accepts(k, i)

\* the same, leaving whitelist entry k0 out
QualifiesBesides(k0, i) ==
    \/ IsGettextCall(chain[i])
    \/ \E k \in (1..10) \ {k0} : Accepts(k, i)

\* C1: a str literal that is empty, a number, ^...$, holds '[^', 'а-я' or
\* 'А-Я', starts or ends with '/', or has a line that starts with '--'
\* once stripped, is never scanned and never reported, whatever its
\* ancestors are.
C1_ContentFilter ==
    LET x == node.value.text
        rows == SplitLines(x)
    IN  (/\ node.value.type = "str"
         /\ \/ x = <<>>
            \/ is_number(x)
            \/ StartsWith(x, <<Caret>>) /\ EndsWith(x, <<Dollar>>)
            \/ Contains(x, <<LBracket, Caret>>)
            \/ Contains(x, <<CyrLowerA, Hyphen, CyrLowerYa>>)
            \/ Contains(x, <<CyrUpperA, Hyphen, CyrUpperYa>>)
            \/ StartsWith(x, <<Slash>>)
            \/ EndsWith(x, <<Slash>>)
            \/ \E i \in 1..Len(rows) :
                  StartsWith(Strip(rows[i]), <<Hyphen, Hyphen>>))
        => /\ pc \in {"start", "done"}
           /\ curr_node = 0
           /\ messages = <<>>

\* a Cyrillic literal that only the SQL-comment entry exempts, alone under
\* the root, has been visited
C1_Witness ==
    /\ pc = "done"
    /\ Len(chain) = 2
    /\ _is_cyrillic_str(node.value)
    /\ _is_comment_in_sql(node.value.text)
    /\ \A k \in 1..5 : ~WhitelistedString(k, node.value.text)
    /\ messages = <<>>

\* C2: a literal that reaches the scan and whose parent is a call of one of
\* the nine gettext names, written as a bare name, is not reported.
C2_GettextParent ==
    (/\ pc = "done"
     /\ ReachesScan
     /\ chain[2].kind = "Call"
     /\ chain[2].func.kind = "Name"
     /\ chain[2].func.name \in
          {"_", "ugettext", "ugettext_lazy", "gettext", "gettext_lazy",
           "pgettext", "pgettext_lazy", "ngettext", "ngettext_lazy"})
    => messages = <<>>

C2_Witness ==
    /\ pc = "done"
    /\ ReachesScan
    /\ chain[2].kind = "Call"
    /\ chain[2].func = Name("ngettext_lazy")
    /\ chain[2].args = <<0, 1>>
    /\ messages = <<>>

C4_FieldConstructor ==
    (/\ pc = "done"
     /\ chain[2].kind = "Call"
     /\ chain[2].func.kind = "Attribute"
     /\ chain[2].func.attrname \in {"CharField", "ForeignKey", "Q"})
    => /\ (Len(chain[2].args) >= 1 /\ chain[2].args[1] = 1)
          => messages = <<>>
       /\ (/\ ReachesScan
           /\ Len(chain[2].args) >= 2
           /\ chain[2].args[2] = 1
           /\ chain[2].args[1] # 1
           /\ \A i \in Examinable : ~QualifiesBesides(10, i))
          => messages = <<Diagnostic>>

\* the field rule alone exempts a first argument
C4_Witness ==
    /\ pc = "done"
    /\ ReachesScan
    /\ chain[2] = Call(Attribute("CharField", Name("models")), <<1>>)
    /\ \A i \in Examinable : ~QualifiesBesides(10, i)
    /\ messages = <<>>

\* C5 as stated: "Дата создания", first positional argument of a call
\* whose callee is the bare name CharField, is not reported when no other
\* ancestor qualifies.
C5_Original ==
    (/\ pc = "done"
     /\ node.value = Str(DataSozdaniya)
     /\ chain[2] = Call(Name("CharField"), <<1>>)
     /\ "CharField" \in __all__
     /\ \A i \in Examinable \ {2} : ~Qualifies(i))
    => messages = <<>>

\* C5 as amended: it is not reported when the callee is the attribute
\* access models.CharField; under the bare name CharField, with no other
\* qualifying ancestor, it is reported.
C5_Amended ==
    (pc = "done" /\ node.value = Str(DataSozdaniya))
    => /\ chain[2] = Call(Attribute("CharField", Name("models")), <<1>>)
          => messages = <<>>
       /\ (/\ chain[2] = Call(Name("CharField"), <<1>>)
           /\ \A i \in Examinable \ {2} : ~Qualifies(i))
          => messages = <<Diagnostic>>

C5_Witness ==
    /\ pc = "done"
    /\ node.value = Str(DataSozdaniya)
    /\ chain[2] = Call(Attribute("CharField", Name("models")), <<1>>)
    /\ \A i \in Examinable \ {2} : ~Qualifies(i)
    /\ messages = <<>>

\* C6: a literal that is one of its Dict parent's keys is not reported; one
\* that is a value and no key, and reaches the scan, goes unreported only
\* if a gettext call or a whitelist entry other than the Dict one applies
\* on its chain, and is reported otherwise.
C6_DictKey ==
    (pc = "done" /\ chain[2].kind = "Dict")
    => LET items == chain[2].items
           isKey == \E i \in 1..Len(items) : items[i][1] = 1
           isValue == \E i \in 1..Len(items) : items[i][2] = 1
       IN  /\ isKey => messages = <<>>
           /\ (/\ isValue /\ ~isKey /\ ReachesScan
               /\ \A i \in Examinable : ~QualifiesBesides(1, i))
              => messages = <<Diagnostic>>

\* a key that nothing but the Dict entry exempts
C6_Witness ==
    /\ pc = "done"
    /\ ReachesScan
    /\ chain[2] = Dict(<<<<1, 0>>>>)
    /\ \A i \in Examinable : ~QualifiesBesides(1, i)
    /\ messages = <<>>

C8_StopAtFirstSuccess ==
    ~(string_ok /\ pc = "scan" /\ HasParent(chain, curr_node))

\* C9: when a whitelist function fails on an absent attribute at the node
\* under examination (and none raises another error there), the handler is
\* not reached, the scan moves on to the parent, and string_ok is set by
\* the other entries of that node.
C9_AbsentAttribute ==
    [][(/\ pc = "scan"
        /\ HasParent(chain, curr_node)
        /\ ~IsGettextCall(chain[curr_node])
        /\ \E k \in 1..10 : AttributeAbsent(k, curr_node)
        /\ \A k \in 1..10 : ~Raises(k, curr_node))
       => /\ pc' = "scan"
          /\ curr_node' = curr_node + 1
          /\ stdout' = stdout
          /\ messages' = messages
          /\ string_ok' = (string_ok \/ \E k \in 1..10 : Accepts(k, curr_node))]_vars

\* after the logging entry failed on a callee base without a name, the
\* field entry has accepted the literal and the scan has moved on
C9_Witness ==
    /\ pc = "scan"
    /\ curr_node = 3
    /\ AttributeAbsent(9, 2)
    /\ Accepts(10, 2)
    /\ string_ok
    /\ stdout = <<>>

\* The orders of the whitelist that can differ in effect: entries of
\* different classes never apply to the same node, so only the order among
\* the two Compare entries and among the three Call entries is varied; the
\* reversed table is added.
Orders ==
    {<<1, 2, 3, 4, 5>> \o c \o k :
        c \in {<<6, 7>>, <<7, 6>>},
        k \in {<<8, 9, 10>>, <<8, 10, 9>>, <<9, 8, 10>>, <<9, 10, 8>>,
               <<10, 8, 9>>, <<10, 9, 8>>}}
    \cup {<<10, 9, 8, 7, 6, 5, 4, 3, 2, 1>>}

====
